---- MODULE Spec2Model ----
(***************************************************************************)
(* A model of the CDS daily-series pipeline (StevenFinch/CDS-data):        *)
(*   - build_series / _read_csv / _filter_usa_usd_5y (clean_aggregate.py)  *)
(*   - fetch_sbsdr_day (sbsdr_fetch.py)                                    *)
(*   - get_url_resilient / _doh_ipv4 / _curl_with_resolve                  *)
(*     (net_resilient.py)                                                  *)
(*   - tenor_close_enough (aliases.py)                                     *)
(*                                                                         *)
(* Conventions.  A pandas cell that may be missing (NaN, NaT, None) is a   *)
(* sequence of length 0 or 1: <<>> is "missing", <<v>> carries v.  A       *)
(* Python float that results from a division is kept exact as a pair       *)
(* <<numerator, denominator>> with denominator > 0; None is <<>>.          *)
(* Calendar dates are day numbers.                                         *)
(***************************************************************************)
EXTENDS Integers, Sequences, FiniteSets, TLC

VARIABLES
    \* ---- build_series (clean_aggregate.py) ----
    pc,        \* position in build_series
    s, e,      \* parsed start_date / end_date
    agg,       \* the agg argument
    d,         \* loop variable d
    txt,       \* value returned by fetch_sbsdr_day for day d
    ser,       \* result of _filter_usa_usd_5y for the day last processed
    rows,      \* the list `rows`
    out,       \* the returned frame
    err,       \* exception that left build_series ("none" when none)
    fetched,   \* the dates for which fetch_sbsdr_day was called, in call order
    outcomes,  \* per call of fetch_sbsdr_day: what the upstream did
    \* ---- get_url_resilient (net_resilient.py) ----
    gpc,       \* position in get_url_resilient
    tries,     \* the tries argument
    attempt,   \* loop variable attempt
    ips,       \* the list ips
    ipi,       \* index into ips of the loop variable ip
    last_err,  \* the variable last_err
    nDirect,   \* requests.get(url) calls issued so far
    nDoh,      \* _doh_ipv4 calls issued so far
    nPin,      \* _curl_with_resolve calls issued so far, per index into ips
    nFail,     \* failed attempts so far, per stage
    nOk,       \* attempts that produced a response body so far
    seen404,   \* some attempt has received HTTP 404
    after404,  \* requests issued after an attempt received HTTP 404
    gret,      \* what get_url_resilient returned / raised
    \* ---- tenor_close_enough (aliases.py) ----
    tpc, request_years, effective_date, maturity_date, tol_years, tenor_ok,
    \* ---- filter_cds_rows (sbsdr_fetch.py) ----
    fpc,                   \* position of the call of filter_cds_rows
    user_entity,           \* the entity name the aliases are derived from
    entity_aliases_lower,  \* the entity_aliases_lower argument
    ccy,                   \* the ccy argument
    tenor_years,           \* the tenor_years argument
    fdf,                   \* the df argument
    fout                   \* the returned frame

bsVars  == <<pc, s, e, agg, d, txt, ser, rows, out, err, fetched, outcomes>>
netVars == <<gpc, tries, attempt, ips, ipi, last_err, nDirect, nDoh, nPin,
             nFail, nOk, seen404, after404, gret>>
tenVars == <<tpc, request_years, effective_date, maturity_date, tol_years, tenor_ok>>
filVars == <<fpc, user_entity, entity_aliases_lower, ccy, tenor_years, fdf, fout>>
vars    == <<bsVars, netVars, tenVars, filVars>>

(***************************************************************************)
(* Bounds of the model.                                                    *)
(***************************************************************************)
MaxDay     == 2   \* dates range over 0..MaxDay
MaxRows    == 2   \* rows of a day's payload in the single-day specification
MaxTries   == 2   \* the tries argument ranges over 1..MaxTries
MaxIps     == 2   \* addresses a DoH answer may carry
MaxTenor   == 5   \* request_years ranges over 1..MaxTenor
MaxTol     == 1   \* tol_years ranges over 0..MaxTol

NA == <<>>
None == <<>>
Days == 0..MaxDay

(***************************************************************************)
(* Generic helpers on sequences (pandas column reductions).                *)
(***************************************************************************)
RECURSIVE SumOver(_, _)
SumOver(f, n) == IF n = 0 THEN 0 ELSE f[n] + SumOver(f, n - 1)

RECURSIVE SelectRows(_, _)
\* boolean-mask indexing df[mask]: keeps row order
SelectRows(sq, keep) ==
    IF sq = <<>> THEN <<>>
    ELSE IF keep[1] THEN <<Head(sq)>> \o SelectRows(Tail(sq), Tail(keep))
         ELSE SelectRows(Tail(sq), Tail(keep))

RECURSIVE InsertByDate(_, _)
\* insertion after the last element whose date is <= the date of x (stable)
InsertByDate(x, sq) ==
    IF sq = <<>> THEN <<x>>
    ELSE IF x.date < Head(sq).date THEN <<x>> \o sq
         ELSE <<Head(sq)>> \o InsertByDate(x, Tail(sq))

RECURSIVE SortByDate(_)
\* DataFrame.sort_values("date"); equal dates keep their order (numpy sorts
\* arrays this short by insertion)
SortByDate(sq) ==
    IF sq = <<>> THEN <<>>
    ELSE InsertByDate(sq[Len(sq)], SortByDate(SubSeq(sq, 1, Len(sq) - 1)))

RECURSIVE InsertNum(_, _)
InsertNum(x, sq) ==
    IF sq = <<>> THEN <<x>>
    ELSE IF x < Head(sq) THEN <<x>> \o sq
         ELSE <<Head(sq)>> \o InsertNum(x, Tail(sq))

RECURSIVE SortNum(_)
SortNum(sq) ==
    IF sq = <<>> THEN <<>>
    ELSE InsertNum(sq[Len(sq)], SortNum(SubSeq(sq, 1, Len(sq) - 1)))

(***************************************************************************)
(* clean_aggregate.py: column resolution and text predicates.              *)
(* A parsed payload is [cols |-> the payload's columns, each named by the  *)
(* COLMAP group _first_col resolves it for, rows |-> sequence of raw       *)
(* rows].  A raw row maps                                                  *)
(* each group to its cell: text cells are strings, numeric and date cells  *)
(* are optional values (a cell that to_numeric / to_datetime coerces to    *)
(* NaN / NaT is NA).  Cells of groups that are not in cols are not read.   *)
(***************************************************************************)
COLMAP == {"date", "reference", "currency", "tenor", "product", "asset",
           "notional", "spread"}

\* strings on which ENTITY_PAT.search succeeds
ENTITY_PAT == {"United States of America", "USA", "united states of america"}
\* strings on which TENOR_PAT.search succeeds
TENOR_PAT == {"5Y", "5 y", "5-Year"}
\* strings on which str.contains("credit|cr", case=False) succeeds
AssetCredit == {"Credit", "CR", "credit"}
\* strings on which str.contains("cds", case=False) succeeds
ProductCds == {"CDS", "cds", "Single Name CDS"}
\* strings s for which s.upper() contains the word USD
CcyUsd == {"USD", "usd"}

_read_csv(text) ==
    \* `not text`, no comma, an empty frame or fewer than 3 columns: None
    IF text = <<>> THEN None
    ELSE IF text[1].rows = <<>> \/ Cardinality(text[1].cols) < 3 THEN None
    ELSE <<text[1]>>

isCredit(r)  == r.asset \in AssetCredit
isCds(r)     == r.product \in ProductCds
isUsa(r)     == r.reference \in ENTITY_PAT
isUsd(r)     == r.currency \in CcyUsd
is5y(r)      == r.tenor \in TENOR_PAT
hasNumber(r) == r.notional # NA \/ r.spread # NA
hasDate(r)   == r.date # NA

\* lines 116-141 of _filter_usa_usd_5y: the standardized output row
OutRow(df, r) ==
    [date       |-> r.date[1],
     notional   |-> IF "notional" \in df.cols
                    THEN (IF r.notional = NA THEN 0 ELSE r.notional[1])
                    ELSE 0,
     spread_bps |-> IF "spread" \in df.cols THEN r.spread ELSE NA]

_filter_usa_usd_5y(df) ==
    LET r0 == df.rows
        r1 == IF "asset" \in df.cols /\ r0 # <<>>
              THEN SelectRows(r0, [i \in 1..Len(r0) |-> isCredit(r0[i])]) ELSE r0
        r2 == IF "product" \in df.cols /\ r1 # <<>>
              THEN SelectRows(r1, [i \in 1..Len(r1) |-> isCds(r1[i])]) ELSE r1
        r3 == SelectRows(r2, [i \in 1..Len(r2) |-> isUsa(r2[i])])
        r4 == IF "currency" \in df.cols
              THEN SelectRows(r3, [i \in 1..Len(r3) |-> isUsd(r3[i])]) ELSE r3
        r5 == IF "tenor" \in df.cols /\ r4 # <<>>
              THEN SelectRows(r4, [i \in 1..Len(r4) |-> is5y(r4[i])]) ELSE r4
        r6 == IF "notional" \in df.cols /\ "spread" \in df.cols
              THEN SelectRows(r5, [i \in 1..Len(r5) |-> hasNumber(r5[i])]) ELSE r5
        r7 == SelectRows(r6, [i \in 1..Len(r6) |-> hasDate(r6[i])])
    IN  IF "reference" \notin df.cols THEN <<>>
        ELSE IF "date" \notin df.cols THEN <<>>
        ELSE [i \in 1..Len(r7) |-> OutRow(df, r7[i])]

(***************************************************************************)
(* build_series: the daily aggregation (lines 170-191).                    *)
(***************************************************************************)
Notional(sr) == SumOver([i \in 1..Len(sr) |-> sr[i].notional], Len(sr))

AnySpread(sr) == \E i \in 1..Len(sr) : sr[i].spread_bps # NA

\* the non-missing spreads, in row order
Spreads(sr) ==
    LET num == SelectRows(sr, [i \in 1..Len(sr) |-> sr[i].spread_bps # NA])
    IN  [i \in 1..Len(num) |-> num[i].spread_bps[1]]

\* (spread_bps.fillna(0.0) * notional.fillna(0.0)).sum() / max(notional, 1e-12)
\* notional is a positive integer here, so max(notional, 1e-12) = notional
WeightedMean(sr) ==
    <<SumOver([i \in 1..Len(sr) |->
                 (IF sr[i].spread_bps = NA THEN 0 ELSE sr[i].spread_bps[1])
                 * sr[i].notional], Len(sr)),
      Notional(sr)>>

\* Series.mean(): NaN skipped
Mean(sr) ==
    LET v == Spreads(sr) IN <<SumOver(v, Len(v)), Len(v)>>

\* Series.median(): NaN skipped; the mean of the two middle values when the
\* count is even
Median(sr) ==
    LET v == SortNum(Spreads(sr))
        n == Len(v)
    IN  IF n % 2 = 1 THEN <<v[(n + 1) \div 2], 1>>
        ELSE <<v[n \div 2] + v[n \div 2 + 1], 2>>

Price(method, sr) ==
    IF method = "weighted_mean" /\ AnySpread(sr) /\ Notional(sr) > 0
        THEN WeightedMean(sr)
    ELSE IF method = "median" /\ AnySpread(sr) THEN Median(sr)
    ELSE IF method = "mean" /\ AnySpread(sr) THEN Mean(sr)
    ELSE None

DayRow(method, sr) ==
    [date     |-> sr[1].date,
     trades   |-> Len(sr),
     notional |-> Notional(sr),
     price    |-> Price(method, sr)]

RECURSIVE DropDuplicatesLast(_)
\* drop_duplicates(subset=["date"], keep="last")
DropDuplicatesLast(sq) ==
    IF sq = <<>> THEN <<>>
    ELSE IF \E j \in 2..Len(sq) : sq[j].date = sq[1].date
         THEN DropDuplicatesLast(Tail(sq))
         ELSE <<Head(sq)>> \o DropDuplicatesLast(Tail(sq))

\* lines 194-201: what build_series returns once the loop has ended
Returned(rs) ==
    IF rs = <<>> THEN <<>> ELSE DropDuplicatesLast(SortByDate(rs))

(***************************************************************************)
(* sbsdr_fetch.py: fetch_sbsdr_day (lines 23-43).  One requests.get, no    *)
(* retry: a status other than 200, a blank body or an unparseable body     *)
(* gives the empty result; requests.get may also raise.  An upstream       *)
(* response is [status, body], body <<>> when blank and <<payload>>        *)
(* otherwise.  fetch_sbsdr_day hands back a frame while build_series       *)
(* (lines 162-168) tests and parses what it receives as text; the model    *)
(* carries the day's payload across that boundary by its content: the      *)
(* empty result is falsy, anything else goes through _read_csv.            *)
(***************************************************************************)
fetch_sbsdr_day(resp) ==
    IF resp.status # 200 \/ resp.body = <<>> THEN <<>> ELSE resp.body

RawRow(date, reference, currency, tenor, product, asset, notional, spread) ==
    [date |-> date, reference |-> reference, currency |-> currency,
     tenor |-> tenor, product |-> product, asset |-> asset,
     notional |-> notional, spread |-> spread]

\* a USD 5Y CDS print on the USA
UsaRow(date, notional, spread) ==
    RawRow(date, "USA", "USD", "5Y", "CDS", "Credit", notional, spread)

SeqsUpTo(S, n) == UNION {[1..k -> S] : k \in 0..n}

\* rows of a day's payload, single-day specification
DayRows ==
    {UsaRow(dt, nt, sp) : dt \in {<<0>>, NA},
                          nt \in {NA, <<0>>, <<1>>, <<3>>},
                          sp \in {NA, <<10>>, <<20>>}}
    \cup {RawRow(<<0>>, "France", "USD", "5Y", "CDS", "Credit", <<1>>, <<10>>),
          RawRow(<<0>>, "USA", "EUR", "5Y", "CDS", "Credit", <<1>>, <<10>>),
          RawRow(<<0>>, "USA", "USD", "10Y", "CDS", "Credit", <<1>>, <<10>>),
          RawRow(<<0>>, "USA", "USD", "5Y", "IRS", "Credit", <<1>>, <<10>>),
          RawRow(<<0>>, "USA", "USD", "5Y", "CDS", "Rates", <<1>>, <<10>>)}

DayCols ==
    {COLMAP} \cup {COLMAP \ {c} : c \in COLMAP} \cup {{"date", "reference"}}

DayPayloads ==
    {[cols |-> c, rows |-> r] : c \in DayCols, r \in SeqsUpTo(DayRows, MaxRows)}

\* payloads of day dd in a multi-day run: one print, dated dd or (a stale
\* file) the start date
RunPayloads(dd) ==
    {[cols |-> c, rows |-> <<UsaRow(<<dt>>, nt, sp)>>] :
        c \in {COLMAP, COLMAP \ {"reference"}},
        dt \in {dd, s}, nt \in {<<0>>, <<1>>}, sp \in {NA, <<10>>}}
    \cup {[cols |-> COLMAP,
           rows |-> <<RawRow(<<dd>>, "France", "USD", "5Y", "CDS", "Credit",
                             <<1>>, <<10>>)>>]}

Responses(P) ==
    {[status |-> 404, body |-> <<>>], [status |-> 500, body |-> <<>>],
     [status |-> 200, body |-> <<>>]}
    \cup {[status |-> 200, body |-> <<p>>] : p \in P}

OutcomeOf(resp) ==
    IF resp.status # 200 THEN "nodata_http"
    ELSE IF resp.body = <<>> THEN "nodata_blank" ELSE "payload"

Methods == {"weighted_mean", "mean", "median", "raw"}
KnownMethods == {"weighted_mean", "mean", "median"}

(***************************************************************************)
(* build_series as a process.                                              *)
(***************************************************************************)
\* a range check that lets a range one day short of empty through
RangeInvalidOffByOne(st, en) == en < st - 1

\* line 154: if e < s
RangeInvalid(st, en) == en < st

\* lines 152-155: end before start
BS_RaiseRange ==
    /\ pc = "start"
    /\ RangeInvalid(s, e)
    /\ pc' = "raised"
    /\ err' = "ValueError"
    /\ UNCHANGED <<s, e, agg, d, txt, ser, rows, out, fetched, outcomes>>

\* lines 157-158
BS_EnterLoop ==
    /\ pc = "start"
    /\ ~RangeInvalid(s, e)
    /\ rows' = <<>>
    /\ d' = s
    /\ pc' = "loop"
    /\ UNCHANGED <<s, e, agg, txt, ser, out, err, fetched, outcomes>>

\* line 162: txt = fetch_sbsdr_day(ds), the upstream answering
BS_Fetch(P) ==
    /\ pc = "loop"
    /\ d <= e
    /\ \E resp \in Responses(P) :
          /\ txt' = fetch_sbsdr_day(resp)
          /\ outcomes' = Append(outcomes, OutcomeOf(resp))
    /\ fetched' = Append(fetched, d)
    /\ pc' = "fetched"
    /\ UNCHANGED <<s, e, agg, d, ser, rows, out, err>>

\* line 162: requests.get raises inside fetch_sbsdr_day (connection, DNS,
\* timeout); neither fetch_sbsdr_day nor build_series catches it
BS_FetchRaises ==
    /\ pc = "loop"
    /\ d <= e
    /\ fetched' = Append(fetched, d)
    /\ outcomes' = Append(outcomes, "raise")
    /\ err' = "ConnectionError"
    /\ pc' = "raised"
    /\ UNCHANGED <<s, e, agg, d, txt, ser, rows, out>>

\* lines 163-192: parse, filter, aggregate, append, next day
BS_Process ==
    /\ pc = "fetched"
    /\ LET dfraw == _read_csv(txt)
           sr    == IF dfraw = None THEN <<>> ELSE _filter_usa_usd_5y(dfraw[1])
       IN  /\ ser' = sr
           /\ rows' = IF sr # <<>> THEN Append(rows, DayRow(agg, sr)) ELSE rows
    /\ d' = d + 1
    /\ pc' = "loop"
    /\ UNCHANGED <<s, e, agg, txt, out, err, fetched, outcomes>>

\* lines 194-201
BS_Return ==
    /\ pc = "loop"
    /\ d > e
    /\ out' = Returned(rows)
    /\ pc' = "done"
    /\ UNCHANGED <<s, e, agg, d, txt, ser, rows, err, fetched, outcomes>>

BS_FetchRun == BS_Fetch(RunPayloads(d))
BS_FetchDay == BS_Fetch(DayPayloads)

BsInit(S, E) ==
    /\ pc = "start"
    /\ s \in S /\ e \in E
    /\ agg \in Methods
    /\ d = 0 /\ txt = <<>> /\ ser = <<>> /\ rows = <<>> /\ out = <<>>
    /\ err = "none" /\ fetched = <<>> /\ outcomes = <<>>

NoFail == [direct |-> 0, doh |-> 0, pin |-> 0]

NetIdle ==
    /\ gpc = "idle" /\ tries = 0 /\ attempt = 0 /\ ips = <<>> /\ ipi = 0
    /\ last_err = "none" /\ nDirect = 0 /\ nDoh = 0 /\ nPin = <<>>
    /\ nFail = NoFail /\ nOk = 0 /\ seen404 = FALSE /\ after404 = 0 /\ gret = "none"

FilterIdle ==
    /\ fpc = "idle" /\ user_entity = "" /\ entity_aliases_lower = <<>>
    /\ ccy = "" /\ tenor_years = 0 /\ fdf = <<>> /\ fout = <<>>

TenorIdle ==
    /\ tpc = "idle" /\ request_years = 0 /\ effective_date = None
    /\ maturity_date = None /\ tol_years = 0 /\ tenor_ok = FALSE

(***************************************************************************)
(* Spec: build_series over every range of Days, every method.              *)
(***************************************************************************)
Init == BsInit(Days, Days) /\ NetIdle /\ TenorIdle /\ FilterIdle

Next ==
    \/ BS_RaiseRange /\ UNCHANGED <<netVars, tenVars, filVars>>
    \/ BS_EnterLoop /\ UNCHANGED <<netVars, tenVars, filVars>>
    \/ BS_FetchRun /\ UNCHANGED <<netVars, tenVars, filVars>>
    \/ BS_FetchRaises /\ UNCHANGED <<netVars, tenVars, filVars>>
    \/ BS_Process /\ UNCHANGED <<netVars, tenVars, filVars>>
    \/ BS_Return /\ UNCHANGED <<netVars, tenVars, filVars>>

Spec == Init /\ [][Next]_vars

(***************************************************************************)
(* SpecDay: build_series over one day, every payload of DayPayloads.       *)
(***************************************************************************)
InitDay == BsInit({0}, {0}) /\ NetIdle /\ TenorIdle /\ FilterIdle

NextDay ==
    \/ BS_EnterLoop /\ UNCHANGED <<netVars, tenVars, filVars>>
    \/ BS_FetchDay /\ UNCHANGED <<netVars, tenVars, filVars>>
    \/ BS_Process /\ UNCHANGED <<netVars, tenVars, filVars>>
    \/ BS_Return /\ UNCHANGED <<netVars, tenVars, filVars>>

SpecDay == InitDay /\ [][NextDay]_vars

(***************************************************************************)
(* net_resilient.py: get_url_resilient as a process.  One action is one    *)
(* attempt together with its except clause, its sleep and the loop         *)
(* bookkeeping that follows it.                                            *)
(***************************************************************************)
\* a loop over range(tries + 1)
InRangeOneMore(a, t) == a < t + 1

\* for attempt in range(tries): index a is one of the loop's
InRange(a, t) == a < t

\* a loop that gives up one attempt early
LastAttemptEarly(a, t) == a + 1 >= t - 1

\* for attempt in range(tries): `a` was the last index of the loop
LastAttempt(a, t) == ~InRange(a + 1, t)

\* what an attempt on the URL can end in without a response body:
\* raise_for_status on a 4xx/5xx status, or a connection / DNS / timeout error
DirectFailures == {"HTTP 404", "HTTP 500", "ConnectionError"}
\* _curl_with_resolve: a non-2xx code raises RuntimeError, perform() may raise
PinFailures == {"HTTP 404", "HTTP 500", "pycurl.error"}

Issue404(kind) ==
    /\ seen404' = (seen404 \/ kind = "HTTP 404")
    /\ after404' = after404 + (IF seen404 THEN 1 ELSE 0)

\* lines 44-48: r.raise_for_status() passes, return r.text
G_DirectOk ==
    /\ gpc = "direct"
    /\ InRange(attempt, tries)
    /\ nDirect' = nDirect + 1
    /\ nOk' = nOk + 1
    /\ Issue404("ok")
    /\ gret' = "text"
    /\ gpc' = "returned"
    /\ UNCHANGED <<tries, attempt, ips, ipi, last_err, nDoh, nPin, nFail>>

\* lines 44-51: the attempt raises; last_err = e, sleep, next attempt; after
\* the last attempt the DoH loop starts (line 54: ips = [])
G_DirectFail ==
    /\ gpc = "direct"
    /\ InRange(attempt, tries)
    /\ \E kind \in DirectFailures :
          /\ last_err' = kind
          /\ Issue404(kind)
    /\ nDirect' = nDirect + 1
    /\ nFail' = [nFail EXCEPT !.direct = @ + 1]
    /\ IF LastAttempt(attempt, tries)
       THEN gpc' = "doh" /\ attempt' = 0 /\ ips' = <<>>
       ELSE gpc' = "direct" /\ attempt' = attempt + 1 /\ ips' = ips
    /\ UNCHANGED <<tries, ipi, nDoh, nPin, nOk, gret>>

\* lines 55-59: _doh_ipv4 returns at least one address; break
G_DohAnswer ==
    /\ gpc = "doh"
    /\ InRange(attempt, tries)
    /\ \E k \in 1..MaxIps :
          /\ ips' = [i \in 1..k |-> i]
          /\ nPin' = [i \in 1..k |-> 0]
    /\ nDoh' = nDoh + 1
    /\ Issue404("ok")
    /\ gpc' = "pin"
    /\ ipi' = 1
    /\ attempt' = 0
    /\ UNCHANGED <<tries, last_err, nDirect, nFail, nOk, gret>>

\* lines 55-65: _doh_ipv4 raises (last_err = e) or returns []; sleep, next
\* attempt; after the last attempt `if not ips: raise RuntimeError`
G_DohFail ==
    /\ gpc = "doh"
    /\ InRange(attempt, tries)
    /\ \E raised \in BOOLEAN :
          last_err' = IF raised THEN "DoH error" ELSE last_err
    /\ nDoh' = nDoh + 1
    /\ nFail' = [nFail EXCEPT !.doh = @ + 1]
    /\ Issue404("doh")
    /\ IF LastAttempt(attempt, tries)
       THEN gpc' = "raised" /\ gret' = "DoH failed" /\ attempt' = attempt
       ELSE gpc' = "doh" /\ gret' = gret /\ attempt' = attempt + 1
    /\ UNCHANGED <<tries, ips, ipi, nDirect, nPin, nOk>>

\* lines 67-70: _curl_with_resolve returns the body
G_PinOk ==
    /\ gpc = "pin"
    /\ InRange(attempt, tries)
    /\ nPin' = [nPin EXCEPT ![ipi] = @ + 1]
    /\ nOk' = nOk + 1
    /\ Issue404("ok")
    /\ gret' = "text"
    /\ gpc' = "returned"
    /\ UNCHANGED <<tries, attempt, ips, ipi, last_err, nDirect, nDoh, nFail>>

\* lines 67-75: _curl_with_resolve raises; last_err = e, sleep, next attempt,
\* then the next ip; after the last attempt on the last ip, raise
G_PinFail ==
    /\ gpc = "pin"
    /\ InRange(attempt, tries)
    /\ \E kind \in PinFailures :
          /\ last_err' = kind
          /\ Issue404(kind)
    /\ nPin' = [nPin EXCEPT ![ipi] = @ + 1]
    /\ nFail' = [nFail EXCEPT !.pin = @ + 1]
    /\ IF ~LastAttempt(attempt, tries)
       THEN gpc' = "pin" /\ attempt' = attempt + 1 /\ ipi' = ipi /\ gret' = gret
       ELSE IF ipi < Len(ips)
       THEN gpc' = "pin" /\ attempt' = 0 /\ ipi' = ipi + 1 /\ gret' = gret
       ELSE gpc' = "raised" /\ attempt' = attempt /\ ipi' = ipi
            /\ gret' = "All fetch attempts failed"
    /\ UNCHANGED <<tries, ips, nDirect, nDoh, nOk>>

BsIdle ==
    /\ pc = "idle" /\ s = 0 /\ e = 0 /\ agg = "weighted_mean"
    /\ d = 0 /\ txt = <<>> /\ ser = <<>> /\ rows = <<>> /\ out = <<>>
    /\ err = "none" /\ fetched = <<>> /\ outcomes = <<>>

(***************************************************************************)
(* SpecNet: one call of get_url_resilient, every pattern of outcomes.      *)
(***************************************************************************)
InitNet ==
    /\ BsIdle /\ TenorIdle /\ FilterIdle
    /\ gpc = "direct" /\ tries \in 1..MaxTries /\ attempt = 0
    /\ ips = <<>> /\ ipi = 0 /\ last_err = "none"
    /\ nDirect = 0 /\ nDoh = 0 /\ nPin = <<>> /\ nFail = NoFail /\ nOk = 0
    /\ seen404 = FALSE /\ after404 = 0 /\ gret = "none"

NextNet ==
    \/ G_DirectOk /\ UNCHANGED <<bsVars, tenVars, filVars>>
    \/ G_DirectFail /\ UNCHANGED <<bsVars, tenVars, filVars>>
    \/ G_DohAnswer /\ UNCHANGED <<bsVars, tenVars, filVars>>
    \/ G_DohFail /\ UNCHANGED <<bsVars, tenVars, filVars>>
    \/ G_PinOk /\ UNCHANGED <<bsVars, tenVars, filVars>>
    \/ G_PinFail /\ UNCHANGED <<bsVars, tenVars, filVars>>

SpecNet == InitNet /\ [][NextNet]_vars

\* every attempt ends (each request carries a timeout, each sleep is finite),
\* so a call that can take a step does take it
SpecNetFair == InitNet /\ [][NextNet]_vars /\ WF_vars(NextNet)

(***************************************************************************)
(* aliases.py: tenor_close_enough.  Dates are day numbers counted from     *)
(* 2020-01-01; a missing date (None) is <<>>.                              *)
(***************************************************************************)
Abs(x) == IF x < 0 THEN 0 - x ELSE x

\* a year of 365 days instead of 365.25
WithinTol365(days, req, tol) == Abs(days - 365 * req) <= 365 * tol

\* yrs = days / 365.25 and abs(yrs - request_years) <= tol_years, with both
\* sides multiplied by 1461 = 4 * 365.25
WithinTol(days, req, tol) == Abs(4 * days - 1461 * req) <= 1461 * tol

tenor_close_enough(req, eff, mat, tol) ==
    IF eff = None \/ mat = None THEN TRUE
    ELSE LET days == mat[1] - eff[1]
         IN  IF days <= 0 THEN FALSE ELSE WithinTol(days, req, tol)

\* 2020-01-01, 2021-01-01, 2023-01-01
EffectiveDates == {None, <<0>>, <<366>>, <<1096>>}
\* ..., 2023-01-01 (1096), 2025-01-02 (1828), and the days around
\* 4 * 365.25 = 1461 and 6 * 365.25 = 2191.5
MaturityDates ==
    {None, <<0>>, <<1>>, <<366>>, <<1096>>, <<1460>>, <<1461>>, <<1462>>,
     <<1828>>, <<2191>>, <<2192>>, <<2557>>, <<2558>>}

T_Call ==
    /\ tpc = "call"
    /\ tenor_ok' = tenor_close_enough(request_years, effective_date,
                                      maturity_date, tol_years)
    /\ tpc' = "done"
    /\ UNCHANGED <<request_years, effective_date, maturity_date, tol_years>>

InitTenor ==
    /\ BsIdle /\ NetIdle /\ FilterIdle
    /\ tpc = "call"
    /\ request_years \in 1..MaxTenor
    /\ tol_years \in 0..MaxTol
    /\ effective_date \in EffectiveDates
    /\ maturity_date \in MaturityDates
    /\ tenor_ok = FALSE

NextTenor == T_Call /\ UNCHANGED <<bsVars, netVars, filVars>>

SpecTenor == InitTenor /\ [][NextTenor]_vars

(***************************************************************************)
(* sbsdr_fetch.py: filter_cds_rows, with default_aliases_for_entity        *)
(* (aliases.py).  A frame is [cols |-> the groups for which pick() finds   *)
(* a column, rows |-> sequence of rows].  Text cells are strings, "nan"    *)
(* being what astype(str) makes of an empty cell.  A date cell is          *)
(* [k, v]: k = "iso" (YYYY-MM-DD), "isoT" (with a time part) or "bad".     *)
(* A numeric cell is [k, v]: k = "num" (v is the number, in units of       *)
(* 1/10000), "empty" (NaN in the frame) or "text" (not a number).          *)
(* A Python float-or-None is [k, v] with k = "num", "nan" or "none".       *)
(***************************************************************************)
MaxFilterRows == 2   \* rows of the frame given to filter_cds_rows

PickCols == {"entity", "ccy", "prod", "notional", "spread", "price",
             "coupon", "eff", "mat", "side"}

\* str.strip() on the strings of the model
Strip(x) ==
    CASE x = " " -> ""
      [] x = " USA " -> "USA"
      [] x = " usd " -> "usd"
      [] OTHER -> x

\* str.lower() on the strings of the model
Lower(x) ==
    CASE x = "USA" -> "usa"
      [] x = "United States of America" -> "united states of america"
      [] x = "United States" -> "united states"
      [] x = "France" -> "france"
      [] x = "USD" -> "usd"
      [] x = "EUR" -> "eur"
      [] x = "CDS" -> "cds"
      [] x = "IRS" -> "irs"
      [] x = "Credit Default Swap" -> "credit default swap"
      [] x = "BUY" -> "buy"
      [] OTHER -> x

\* aliases.py lines 10-20
AliasTable ==
    <<"united states of america", "united states", "u.s. government",
      "us government", "u.s. sovereign", "usa", "u.s.a.">>

InSeq(x, sq) == \E i \in 1..Len(sq) : sq[i] = x

\* aliases.py lines 9-27; list(dict.fromkeys(...)) drops the repeated key
default_aliases_for_entity(name) ==
    LET key == Lower(Strip(name))
    IN  IF key = "united states of america"
        THEN (IF InSeq(key, AliasTable) THEN AliasTable
              ELSE Append(AliasTable, key))
        ELSE <<key>>

NumNone == [k |-> "none", v |-> 0]
NumNan  == [k |-> "nan", v |-> 0]
Num(v)  == [k |-> "num", v |-> v]

\* lines 17-21
_safe_date(cell) == IF cell.k \in {"iso", "isoT"} THEN <<cell.v>> ELSE None

\* lines 143-147: float(str(x).replace(",", "")); float("nan") is NaN
to_num(cell) ==
    IF cell.k = "num" THEN Num(cell.v)
    ELSE IF cell.k = "empty" THEN NumNan
    ELSE NumNone

\* line 153: to_num(x) * 10000.0 if (to_num(x) and to_num(x) < 1) else to_num(x)
\* (numbers are in units of 1/10000: 1 is 10000 units)
CouponBps(cell) ==
    LET x == to_num(cell)
    IN  IF x.k = "num" /\ x.v # 0 /\ x.v < 10000 THEN Num(x.v * 10000) ELSE x

\* Series.apply / a list assigned to a column: a result holding a float
\* becomes a float column, its None cells NaN; a result of None alone stays
\* an object column of None
InferColumn(col) ==
    IF \E i \in 1..Len(col) : col[i].k # "none"
    THEN [i \in 1..Len(col) |-> IF col[i].k = "none" THEN NumNan ELSE col[i]]
    ELSE col

\* line 117: "cds" in x or "credit default swap" in x, on the strings of the
\* model
ContainsCds(x) == x \in {"cds", "credit default swap"}

\* lines 115-118
ProdIsCds(df, r) ==
    LET prod_val == IF "prod" \in df.cols /\ r.prod # "nan"
                    THEN Lower(r.prod) ELSE ""
    IN  ContainsCds(prod_val)

\* lines 98-101 and 121
EntOk(df, r, aliases) ==
    LET entity_low == IF "entity" \in df.cols THEN Lower(r.entity) ELSE ""
    IN  InSeq(entity_low, aliases)

\* lines 64, 104-107 and 124-126
CcyOk(df, r, c) ==
    LET ccy_low == Lower(Strip(c))
        row_low == IF "ccy" \in df.cols THEN Lower(r.ccy) ELSE ""
    IN  IF ccy_low # "" THEN row_low = ccy_low ELSE TRUE

\* lines 110-111 and 129-134
TenorOk(df, r, yrs) ==
    tenor_close_enough(yrs,
                       IF "eff" \in df.cols THEN _safe_date(r.eff) ELSE None,
                       IF "mat" \in df.cols THEN _safe_date(r.mat) ELSE None,
                       1)

\* lines 114-136
looks_like_cds(df, r, aliases, c, yrs) ==
    IF ~ProdIsCds(df, r) THEN FALSE
    ELSE EntOk(df, r, aliases) /\ CcyOk(df, r, c) /\ TenorOk(df, r, yrs)

\* lines 167-174; `is not None` holds of NaN
choose_quote(row) ==
    IF row.spread_bps.k # "none" THEN <<row.spread_bps, <<"spread_bps">> >>
    ELSE IF row.price.k # "none" THEN <<row.price, <<"price">> >>
    ELSE IF row.coupon_bps.k # "none"
         THEN <<row.coupon_bps, <<"running_coupon_bps">> >>
    ELSE <<NumNone, None>>

\* lines 46-193; a returned row keeps its index label idx
filter_cds_rows(df, aliases, c, yrs) ==
    LET n     == Len(df.rows)
        label == [i \in 1..n |-> i]
        keep  == [i \in 1..n |-> looks_like_cds(df, df.rows[i], aliases, c, yrs)]
        work  == SelectRows(label, keep)
        m     == Len(work)
        Col(g, F(_)) ==
            IF g \in df.cols
            THEN InferColumn([j \in 1..m |-> F(df.rows[work[j]][g])])
            ELSE [j \in 1..m |-> NumNone]
        notional == Col("notional", to_num)
        spread   == Col("spread", to_num)
        price    == Col("price", to_num)
        coupon   == Col("coupon", CouponBps)
        partial  == [j \in 1..m |->
                       [spread_bps |-> spread[j], price |-> price[j],
                        coupon_bps |-> coupon[j]]]
        qvalue   == InferColumn([j \in 1..m |-> choose_quote(partial[j])[1]])
    IN  IF n = 0 THEN <<>>
        ELSE [j \in 1..m |->
                [idx             |-> work[j],
                 notional        |-> notional[j],
                 spread_bps      |-> spread[j],
                 price           |-> price[j],
                 coupon_bps      |-> coupon[j],
                 quote_value_bps |-> qvalue[j],
                 quote_type      |-> choose_quote(partial[j])[2],
                 side            |-> IF "side" \in df.cols
                                     THEN <<Lower(df.rows[work[j]].side)>>
                                     ELSE None]]

Iso(n) == [k |-> "iso", v |-> n]
BadDate == [k |-> "bad", v |-> 0]
Cell(v) == [k |-> "num", v |-> v]
EmptyCell == [k |-> "empty", v |-> 0]
TextCell == [k |-> "text", v |-> 0]

FRow(entity, c, prod, eff, mat, spread, price, coupon) ==
    [entity |-> entity, ccy |-> c, prod |-> prod, eff |-> eff, mat |-> mat,
     notional |-> Cell(10000), spread |-> spread, price |-> price,
     coupon |-> coupon, side |-> "BUY"]

\* a 5-year USD CDS on the USA with the quote cells given
QuoteRow(spread, price, coupon) ==
    FRow("USA", "USD", "CDS", Iso(0), [k |-> "isoT", v |-> 1828],
         spread, price, coupon)

\* spread 120, price 99, coupon 0.05 / 500 / 0 (units of 1/10000)
FilterRows ==
    {QuoteRow(sp, pr, cp) :
        sp \in {Cell(1200000), EmptyCell, TextCell},
        pr \in {Cell(990000), TextCell},
        cp \in {Cell(500), Cell(5000000), Cell(0), TextCell}}
    \cup {FRow(en, "USD", "CDS", Iso(0), Iso(1828), Cell(1200000), TextCell, TextCell) :
            en \in {"United States", "France", "nan"}}
    \cup {FRow("USA", c, "CDS", Iso(0), Iso(1828), Cell(1200000), TextCell, TextCell) :
            c \in {"usd", "EUR"}}
    \cup {FRow("USA", "USD", pd, Iso(0), Iso(1828), Cell(1200000), TextCell, TextCell) :
            pd \in {"IRS", "nan", "Credit Default Swap"}}
    \cup {FRow("USA", "USD", "CDS", Iso(0), mt, Cell(1200000), TextCell, TextCell) :
            mt \in {Iso(1096), BadDate}}

FilterCols ==
    {PickCols, PickCols \ {"entity"}, PickCols \ {"ccy"}, PickCols \ {"prod"},
     PickCols \ {"spread"}, PickCols \ {"spread", "price"},
     PickCols \ {"spread", "price", "coupon"}, PickCols \ {"eff", "side"}}

FilterFrames ==
    {[cols |-> c, rows |-> r] :
        c \in FilterCols, r \in SeqsUpTo(FilterRows, MaxFilterRows)}

UserEntities == {"United States of America", " USA ", "France", "", " "}
UserCurrencies == {"USD", " usd ", "EUR", ""}

F_Call ==
    /\ fpc = "call"
    /\ fout' = filter_cds_rows(fdf, entity_aliases_lower, ccy, tenor_years)
    /\ fpc' = "done"
    /\ UNCHANGED <<user_entity, entity_aliases_lower, ccy, tenor_years, fdf>>

(***************************************************************************)
(* SpecFilter: one call of filter_cds_rows on every frame of FilterFrames. *)
(***************************************************************************)
InitFilter ==
    /\ BsIdle /\ NetIdle /\ TenorIdle
    /\ fpc = "call"
    /\ user_entity \in UserEntities
    /\ entity_aliases_lower = default_aliases_for_entity(user_entity)
    /\ ccy \in UserCurrencies
    /\ tenor_years = 5
    /\ fdf \in FilterFrames
    /\ fout = <<>>

NextFilter == F_Call /\ UNCHANGED <<bsVars, netVars, tenVars>>

SpecFilter == InitFilter /\ [][NextFilter]_vars

(***************************************************************************)
(* Properties.                                                             *)
(***************************************************************************)
FracEq(a, b) == a[1] * b[2] = b[1] * a[2]

InclusiveDays == e - s + 1

StrictlyIncreasingDates(f) == \A i \in 1..(Len(f) - 1) : f[i].date < f[i + 1].date

C2_TransportFailureNeverAborts ==
    \A i \in 1..Len(outcomes) :
        outcomes[i] = "raise" =>
            /\ pc # "raised"
            /\ (pc = "done" => Len(fetched) = InclusiveDays)

\* C3: once any attempt of get_url_resilient receives HTTP 404, no further
\* request (direct, DoH or IP-pinned) is issued and the call ends with a
\* "no data" result, not an error.
C3_NotFoundShortCircuits ==
    /\ after404 = 0
    /\ (seen404 /\ gpc \in {"returned", "raised"}) =>
          (gpc = "returned" /\ gret = "no data")

PinIssued == SumOver(nPin, Len(nPin))

\* C4: the stages of get_url_resilient run strictly in order: a DoH lookup
\* only after all `tries` direct attempts failed; an IP-pinned request only
\* after a DoH lookup returned at least one address; the call returns as soon
\* as one attempt succeeds; an error is raised only after every attempt of
\* every stage (direct, then DoH, then every returned IP) has failed.
C4_StagesInOrder ==
    /\ nDoh > 0 => (nDirect = tries /\ nFail.direct = tries)
    /\ PinIssued > 0 => (Len(ips) >= 1 /\ nDoh >= 1 /\ nFail.doh = nDoh - 1
                         /\ nFail.direct = tries)
    /\ nOk <= 1
    /\ (nOk = 1) <=> (gpc = "returned")
    /\ gpc = "returned" =>
          nDirect + PinIssued = nFail.direct + nFail.pin + 1
    /\ gpc = "raised" =>
          /\ nOk = 0
          /\ nFail.direct = tries
          /\ IF ips = <<>>
             THEN nFail.doh = tries /\ gret = "DoH failed"
             ELSE /\ nFail.pin = tries * Len(ips)
                  /\ \A i \in 1..Len(ips) : nPin[i] = tries
                  /\ gret = "All fetch attempts failed"

C4_Witness ==
    gpc = "raised" /\ Len(ips) >= 2 /\ tries >= 2 /\ nFail.doh >= 1

C6_UnknownMethodRejectedFirst ==
    agg \notin KnownMethods =>
        (fetched = <<>> /\ rows = <<>> /\ out = <<>>)

\* C7: when end is before start, build_series raises an error and issues no
\* day fetch: no network activity, no output row.
C7_RangeErrorBeforeFetch ==
    e < s =>
        /\ pc \in {"start", "raised"}
        /\ fetched = <<>> /\ outcomes = <<>> /\ rows = <<>> /\ out = <<>>
        /\ (pc = "raised" => err = "ValueError")

C7_Witness == e < s /\ pc = "raised" /\ err = "ValueError" /\ fetched = <<>>

QuotedValueWeight(sr) ==
    SumOver([i \in 1..Len(sr) |->
               IF sr[i].spread_bps = NA THEN 0
               ELSE sr[i].spread_bps[1] * sr[i].notional], Len(sr))
QuotedWeight(sr) ==
    SumOver([i \in 1..Len(sr) |->
               IF sr[i].spread_bps = NA THEN 0 ELSE sr[i].notional], Len(sr))

DatesPresent == effective_date # None /\ maturity_date # None
TenorDays == maturity_date[1] - effective_date[1]
\* |days / 365.25 - request_years| <= tol_years, in units of 1/1461 year
TenorInTolerance ==
    /\ 4 * TenorDays - 1461 * request_years <= 1461 * tol_years
    /\ 1461 * request_years - 4 * TenorDays <= 1461 * tol_years

\* C10 as stated: with both dates present the record is accepted if and
\* only if |(maturity - effective) / 365.25 - tenor| <= tolerance; with a
\* date missing it is accepted.
C10_TenorRuleAsStated ==
    tpc = "done" =>
        (tenor_ok <=> (~DatesPresent \/ TenorInTolerance))

\* C10 amended: with both dates present the record is accepted if and only
\* if maturity is after effective and |(maturity - effective) / 365.25 -
\* tenor| <= tolerance (2020-01-01 to 2025-01-02, tenor 5, tolerance 1 is
\* accepted, to 2023-01-01 rejected); with a date missing it is accepted.
C10_TenorRule ==
    tpc = "done" =>
        /\ tenor_ok <=> (~DatesPresent \/ (TenorDays > 0 /\ TenorInTolerance))
        /\ (effective_date = <<0>> /\ request_years = 5 /\ tol_years = 1) =>
              /\ maturity_date = <<1828>> => tenor_ok
              /\ maturity_date = <<1096>> => ~tenor_ok

C10_Witness ==
    /\ tpc = "done" /\ effective_date = <<0>> /\ maturity_date = <<1828>>
    /\ request_years = 5 /\ tol_years = 1 /\ tenor_ok

RangeDates == [i \in 1..InclusiveDays |-> s + i - 1]

\* C14: for a valid range build_series issues exactly one day fetch per
\* calendar date of [start, end], in ascending order with no date skipped or
\* repeated, and fetches the next date only after the current date has been
\* parsed, filtered, aggregated and appended.
C14_OneFetchPerDateInOrder ==
    s <= e =>
        /\ Len(fetched) <= InclusiveDays
        /\ \A i \in 1..Len(fetched) : fetched[i] = RangeDates[i]
        /\ pc = "loop" => d = s + Len(fetched)
        /\ pc = "fetched" => d = s + Len(fetched) - 1
        /\ pc \in {"done", "raised"} => fetched = RangeDates

GetUrlEnded == gpc \in {"returned", "raised"}

GetUrlBounds ==
    /\ nDirect <= tries
    /\ nDoh <= tries
    /\ \A i \in 1..Len(nPin) : nPin[i] <= tries
    /\ Len(nPin) <= Len(ips)
    /\ nDoh > 0 => gpc # "direct"
    /\ gpc = "returned" => gret = "text"
    /\ gpc = "raised" => gret \in {"DoH failed", "All fetch attempts failed"}
    /\ ~GetUrlEnded => gret = "none"

\* C15: get_url_resilient always terminates, whatever the requests answer:
\* at most `tries` direct requests, at most `tries` DoH lookups, at most
\* `tries` IP-pinned requests per resolved address, no direct request after
\* the first DoH lookup, and it ends either returning a body or raising.
C15_BoundedAndTerminates ==
    /\ []GetUrlBounds
    /\ [][nDoh > 0 => nDirect' = nDirect]_vars
    /\ [][GetUrlEnded => UNCHANGED <<gpc, gret>>]_vars
    /\ <>GetUrlEnded

C15_Witness ==
    /\ gpc = "raised" /\ tries >= 2 /\ nDirect = tries /\ nDoh >= 2
    /\ Len(ips) >= 2 /\ \A i \in 1..Len(ips) : nPin[i] = tries

FilterDone == fpc = "done"
ReturnedIdx == {fout[j].idx : j \in 1..Len(fout)}
IsNumeric(x) == x.k = "num"

\* C11: when the frame has no entity column, filter_cds_rows returns no row,
\* whatever entity name was requested (the empty and the blank name included)
\* and whatever the rows hold.
C11_NoEntityColumnNoRows ==
    (FilterDone /\ "entity" \notin fdf.cols) => fout = <<>>

\* C12: with a currency column, a returned row's currency equals the
\* requested currency ignoring case (and surrounding blanks); without a
\* currency column, every row that passes the product, entity and tenor
\* tests is returned, whatever currency was requested.
C12_CurrencyPredicate ==
    FilterDone =>
        /\ "ccy" \in fdf.cols =>
              \A i \in ReturnedIdx : Lower(fdf.rows[i].ccy) = Lower(Strip(ccy))
        /\ "ccy" \notin fdf.cols =>
              \A i \in 1..Len(fdf.rows) :
                  (/\ ProdIsCds(fdf, fdf.rows[i])
                   /\ EntOk(fdf, fdf.rows[i], entity_aliases_lower)
                   /\ TenorOk(fdf, fdf.rows[i], tenor_years)) => i \in ReturnedIdx

NumericCell(df, r, g) == g \in df.cols /\ r[g].k = "num"

\* the quote the rule names for a row: spread, else price, else coupon in bps
RuleQuote(df, r) ==
    IF NumericCell(df, r, "spread") THEN <<Num(r.spread.v), <<"spread_bps">> >>
    ELSE IF NumericCell(df, r, "price") THEN <<Num(r.price.v), <<"price">> >>
    ELSE IF NumericCell(df, r, "coupon")
         THEN <<CouponBps(r.coupon), <<"running_coupon_bps">> >>
    ELSE <<NumNone, None>>

\* C13: every returned row carries a numeric quote_value_bps and a non-empty
\* quote_type, and they are the spread if it is numeric, otherwise the price
\* if it is numeric, otherwise the coupon converted to bps; a row with no
\* numeric value in the three fields is not returned.
C13_QuoteChosenOrRowDropped ==
    FilterDone =>
        \A j \in 1..Len(fout) :
            /\ IsNumeric(fout[j].quote_value_bps)
            /\ fout[j].quote_type # None
            /\ <<fout[j].quote_value_bps, fout[j].quote_type>>
                  = RuleQuote(fdf, fdf.rows[fout[j].idx])

====
